---- MODULE Spec2Model ----
(***************************************************************************)
(* Model of the user-management screen: the Users page (list, delete flow, *)
(* creation dialog) of src/pages/Users.tsx and the AddUserForm component   *)
(* of src/components/AddUserForm.tsx.                                      *)
(*                                                                         *)
(* One state of the model is one committed render of the page together     *)
(* with the requests that are in flight.  One action is one event handler  *)
(* run to its first await, or the continuation of an async handler after   *)
(* its await (React batches the state updates of such a run).              *)
(*                                                                         *)
(* JavaScript strings are sequences of one-character strings, so that      *)
(* toLowerCase, includes, length and the email pattern are computed.       *)
(***************************************************************************)
EXTENDS Integers, Sequences, FiniteSets

(***************************************************************************)
(* Bounds of the model.                                                    *)
(***************************************************************************)
\* at most MaxPending requests are in flight at a time
MaxPending == 2
\* the user enters one of the first MaxTexts texts of a field's list of texts
MaxTexts == 2

(***************************************************************************)
(* Strings.                                                                *)
(***************************************************************************)
UpperChars == <<"A","B","C","D","E","F","G","H","I","J","K","L","M",
                "N","O","P","Q","R","S","T","U","V","W","X","Y","Z">>
LowerChars == <<"a","b","c","d","e","f","g","h","i","j","k","l","m",
                "n","o","p","q","r","s","t","u","v","w","x","y","z">>
DigitChars == <<"0","1","2","3","4","5","6","7","8","9">>

Range(s) == {s[i] : i \in DOMAIN s}

\* String.prototype.toLowerCase, one character
LowerChar(c) ==
    IF \E i \in DOMAIN UpperChars : UpperChars[i] = c
    THEN LowerChars[CHOOSE i \in DOMAIN UpperChars : UpperChars[i] = c]
    ELSE c

\* String.prototype.toLowerCase
toLowerCase(s) == [i \in 1..Len(s) |-> LowerChar(s[i])]

\* String.prototype.includes
includes(s, sub) ==
    \E i \in 0..(Len(s) - Len(sub)) : SubSeq(s, i + 1, i + Len(sub)) = sub

IsLetter(c) == c \in Range(UpperChars) \cup Range(LowerChars)
IsAlnum(c) == IsLetter(c) \/ c \in Range(DigitChars)

\* the string literals of the two source files
STR_admin == <<"a","d","m","i","n">>
STR_comerciante == <<"c","o","m","e","r","c","i","a","n","t","e">>
STR_creador == <<"c","r","e","a","d","o","r"," ","d","e"," ","r","u","t","a">>
STR_500 == <<"5","0","0">>
STR_403 == <<"4","0","3">>
STR_404 == <<"4","0","4">>
STR_empty == <<>>

\* other spellings of a role the API may return
STR_Admin == <<"A","d","m","i","n">>

(***************************************************************************)
(* The data of the API (imported from "@/lib/api").                        *)
(***************************************************************************)
\* useState<number | null>(null): the value null, outside the ids
Null == -1
\* The users the API answers with in this model: a merchant with id 0 (the id
\* that is falsy in JavaScript), an administrator whose role is spelled with a
\* capital, and a user with id 2 who is a merchant or, once promoted on the
\* server, an administrator.
SampleUsers ==
    {[id |-> 0, rol |-> STR_comerciante],
     [id |-> 1, rol |-> STR_Admin],
     [id |-> 2, rol |-> STR_comerciante],
     [id |-> 2, rol |-> STR_admin]}

\* the results of getUsers: rows with distinct ids, in id order
Collections ==
    {c \in UNION {[1..n -> SampleUsers] : n \in 0..Cardinality(SampleUsers)} :
        \A i \in 1..Len(c) : \A j \in 1..Len(c) : i < j => c[i].id < c[j].id}

(***************************************************************************)
(* formSchema of AddUserForm.tsx (zod).                                    *)
(***************************************************************************)
\* nombre: z.string().min(NameMin, ...)
NameMin == 3
\* password: z.string().min(PasswordMin, ...)
PasswordMin == 6
\* rol: z.enum([...])
RolEnum == {STR_admin, STR_comerciante, STR_creador}

\* characters of the local part of an address: [A-Z0-9_'+\-\.], case-insensitive
EmailLocalChar(c) == IsAlnum(c) \/ c \in {"_", "'", "+", "-", "."}
\* the last character of the local part: [A-Z0-9_+-]
EmailLocalLast(c) == IsAlnum(c) \/ c \in {"_", "+", "-"}

\* ([A-Z0-9][A-Z0-9\-]*\.)+[A-Z]{2,}
EmailDomain(d) ==
    LET dots == {i \in 1..Len(d) : d[i] = "."}
    IN  /\ dots # {}
        /\ LET last == CHOOSE i \in dots : \A j \in dots : j <= i
           IN  /\ Len(d) - last >= 2
               /\ \A i \in (last + 1)..Len(d) : IsLetter(d[i])
               /\ IsAlnum(d[1])
               /\ \A i \in 1..last :
                     IF d[i] = "."
                     THEN i > 1 /\ d[i - 1] # "." /\ (i < last => IsAlnum(d[i + 1]))
                     ELSE IsAlnum(d[i]) \/ d[i] = "-"

\* z.string().email(): zod's pattern
\* ^(?!\.)(?!.*\.\.)([A-Z0-9_'+\-\.]*)[A-Z0-9_+-]@([A-Z0-9][A-Z0-9\-]*\.)+[A-Z]{2,}$
IsEmail(s) ==
    /\ Len(s) > 0
    /\ s[1] # "."
    /\ ~ includes(s, <<".", ".">>)
    /\ \E k \in 2..Len(s) :
          /\ s[k] = "@"
          /\ \A i \in 1..(k - 1) : EmailLocalChar(s[i])
          /\ EmailLocalLast(s[k - 1])
          /\ EmailDomain(SubSeq(s, k + 1, Len(s)))

\* formSchema with the length of nombre compared one too low
formSchemaErrors_shortName(values) ==
       (IF Len(values.nombre) >= NameMin - 1 THEN {} ELSE {"nombre"})
  \cup (IF IsEmail(values.email) THEN {} ELSE {"email"})
  \cup (IF Len(values.password) >= PasswordMin THEN {} ELSE {"password"})
  \cup (IF values.rol \in RolEnum THEN {} ELSE {"rol"})

\* the fields formSchema rejects (each is reported under its own field)
formSchemaErrors(values) ==
       (IF Len(values.nombre) >= NameMin THEN {} ELSE {"nombre"})
  \cup (IF IsEmail(values.email) THEN {} ELSE {"email"})
  \cup (IF Len(values.password) >= PasswordMin THEN {} ELSE {"password"})
  \cup (IF values.rol \in RolEnum THEN {} ELSE {"rol"})

\* defaultValues of useForm
defaultValues ==
    [nombre |-> STR_empty, email |-> STR_empty, password |-> STR_empty,
     rol |-> STR_comerciante]

(***************************************************************************)
(* What a user types into the form.                                        *)
(***************************************************************************)
STR_Jo == <<"J","o">>
STR_Ana == <<"A","n","a">>
STR_JohnDoe == <<"J","o","h","n"," ","D","o","e">>
STR_a_b_com == <<"a","@","b",".","c","o","m">>
STR_john_example_com ==
    <<"j","o","h","n","@","e","x","a","m","p","l","e",".","c","o","m">>
STR_a_b == <<"a","@","b">>
STR_ab_com == <<"a","b",".","c","o","m">>
STR_dot_a_b_com == <<".","a","@","b",".","c","o","m">>
STR_a_dotdot_b_c_com == <<"a",".",".","b","@","c",".","c","o","m">>
STR_a_b_c == <<"a","@","b",".","c">>
STR_12345 == <<"1","2","3","4","5">>
STR_secret == <<"s","e","c","r","e","t">>
STR_secret1 == <<"s","e","c","r","e","t","1">>

\* two filled-in forms: one the schema rejects (nombre) and one it accepts
InputJo ==
    [nombre |-> STR_Jo, email |-> STR_a_b_com, password |-> STR_secret1,
     rol |-> STR_admin]
InputJohn ==
    [nombre |-> STR_JohnDoe, email |-> STR_john_example_com,
     password |-> STR_secret1, rol |-> STR_comerciante]

\* what the user enters in the page model, one field at a time.  An Input takes
\* any text at any time, also while a request is in flight: the texts of a
\* field are the empty text (the field cleared), one the schema accepts and one
\* it rejects, of which the first MaxTexts are entered.  The Select delivers
\* its items.
NombreTexts == <<STR_empty, STR_JohnDoe, STR_Jo>>
EmailTexts == <<STR_empty, STR_john_example_com, STR_a_b>>
PasswordTexts == <<STR_empty, STR_secret1, STR_12345>>
Texts(list) == {list[k] : k \in {k \in 1..MaxTexts : k <= Len(list)}}
FieldNames == {"nombre", "email", "password", "rol"}
FieldInputs ==
    [nombre |-> Texts(NombreTexts), email |-> Texts(EmailTexts),
     password |-> Texts(PasswordTexts), rol |-> RolEnum]

\* the inputs the schema is exercised on, field by field
NameInputs == {STR_empty, STR_Jo, STR_Ana, STR_JohnDoe}
EmailInputs ==
    {STR_empty, STR_a_b_com, STR_john_example_com, STR_a_b, STR_ab_com,
     STR_dot_a_b_com, STR_a_dotdot_b_c_com, STR_a_b_c}
PasswordInputs == {STR_empty, STR_12345, STR_secret, STR_secret1}
RolInputs == RolEnum \cup {STR_Admin, STR_empty}
SchemaInputs ==
    [nombre : NameInputs, email : EmailInputs, password : PasswordInputs,
     rol : RolInputs]

(***************************************************************************)
(* Rejections of the API.  The API client is not part of these two files;  *)
(* its errors follow the interface section of the specification: a failure *)
(* is an Error whose message carries the response status, a network        *)
(* failure is an Error without a status, and a rejection may also be a     *)
(* value that is not an Error.                                             *)
(***************************************************************************)
STR_503 == <<"5","0","3">>
STR_HTTP == <<"H","T","T","P"," ">>
STR_network == <<"F","a","i","l","e","d"," ","t","o"," ","f","e","t","c","h">>
StatusCodes == {STR_403, STR_404, STR_500, STR_503}

ApiError(status) == [isError |-> TRUE, message |-> STR_HTTP \o status]
NetworkError == [isError |-> TRUE, message |-> STR_network]
\* a rejection with a value that is not an Error (here: a thrown status string)
Thrown(status) == [isError |-> FALSE, message |-> status]

DeleteErrors ==
    {ApiError(st) : st \in StatusCodes} \cup {NetworkError, Thrown(STR_403)}
CreateErrors == {ApiError(STR_503), NetworkError, Thrown(STR_500)}

(***************************************************************************)
(* Notifications (toast).                                                  *)
(***************************************************************************)
\* a description that is a literal of the source / the message of an error
Lit(s) == [lit |-> s, msg |-> <<>>]
Msg(m) == [lit |-> "", msg |-> m]

NoToast == [title |-> "", description |-> Lit(""), variant |-> ""]

\* fetchUsers, catch
ToastLoadError ==
    [title |-> "Error", description |-> Lit("No se pudieron cargar los usuarios"),
     variant |-> "destructive"]
\* handleDelete, try
ToastDeleted ==
    [title |-> "Usuario eliminado",
     description |-> Lit("El usuario ha sido eliminado exitosamente"),
     variant |-> "default"]
\* onSubmit, try
ToastCreated ==
    [title |-> "Usuario creado",
     description |-> Lit("El nuevo usuario ha sido agregado exitosamente."),
     variant |-> "default"]
ToastError(description) ==
    [title |-> "Error", description |-> description, variant |-> "destructive"]

\* the messages of handleDelete's catch
MsgDeleteGeneric == "No se pudo eliminar el usuario"
MsgDelete500 == "Error del servidor: El usuario no puede ser eliminado (posiblemente tiene datos relacionados o es un administrador)"
MsgDelete403 == "No tienes permisos para eliminar este usuario"
MsgDelete404 == "El usuario no fue encontrado"
\* the fallback of onSubmit's catch
MsgCreateGeneric == "No se pudo crear el usuario. Inténtalo de nuevo."

\* the classification without its '403' branch
DeleteErrorMessage_no403(error) ==
    IF error.isError
    THEN IF includes(error.message, STR_500) THEN MsgDelete500
         ELSE IF includes(error.message, STR_404) THEN MsgDelete404
         ELSE MsgDeleteGeneric
    ELSE MsgDeleteGeneric

\* handleDelete, catch: let errorMessage = ...; if (error instanceof Error) ...
DeleteErrorMessage(error) ==
    IF error.isError
    THEN IF includes(error.message, STR_500) THEN MsgDelete500
         ELSE IF includes(error.message, STR_403) THEN MsgDelete403
         ELSE IF includes(error.message, STR_404) THEN MsgDelete404
         ELSE MsgDeleteGeneric
    ELSE MsgDeleteGeneric

\* onSubmit, catch: error instanceof Error ? error.message : "No se pudo ..."
CreateErrorDescription(error) ==
    IF error.isError THEN Msg(error.message) ELSE Lit(MsgCreateGeneric)

(***************************************************************************)
(* The state: the state of the Users page, the state of the mounted        *)
(* AddUserForm, the notification on screen and the requests in flight.     *)
(***************************************************************************)
VARIABLES
    users,          \* useState<User[]>([])
    isLoading,      \* useState(true)
    deleteId,       \* useState<number | null>(null)
    isAddUserOpen,  \* useState(false)
    isSubmitting,   \* AddUserForm: useState(false), of the mounted form
    formValues,     \* AddUserForm: the values held by useForm, of the mounted form
    toast,          \* the notification the last handler raised
    fetches,        \* api.getUsers calls in flight, in the order issued
    deletes,        \* api.deleteUser calls in flight, in the order issued
    creates,        \* api.createUser calls in flight, in the order issued
    effects,        \* what the last handler did, in the order it did it
    stale           \* history: for each api.getUsers call in flight, whether a
                    \* call issued after it has already resolved

vars ==
    <<users, isLoading, deleteId, isAddUserOpen, isSubmitting, formValues,
      toast, fetches, deletes, creates, effects, stale>>

\* the state as one record
Cur ==
    [users |-> users, isLoading |-> isLoading, deleteId |-> deleteId,
     isAddUserOpen |-> isAddUserOpen, isSubmitting |-> isSubmitting,
     formValues |-> formValues, toast |-> toast, fetches |-> fetches,
     deletes |-> deletes, creates |-> creates, effects |-> effects,
     stale |-> stale]

Pending == Len(fetches) + Len(deletes) + Len(creates)

(***************************************************************************)
(* The statements of the handlers.  A handler is the sequence of the       *)
(* statements it runs; Run applies them in order.                          *)
(***************************************************************************)
Cmd(op, arg) == [op |-> op, arg |-> arg]

\* one statement applied to the state S
Step(S, c) ==
    LET T == [S EXCEPT !.effects = Append(@, c.op)]
    IN  CASE c.op = "setUsers" -> [T EXCEPT !.users = c.arg]
          [] c.op = "setIsLoading" -> [T EXCEPT !.isLoading = c.arg]
          [] c.op = "setDeleteId" -> [T EXCEPT !.deleteId = c.arg]
          [] c.op = "setOpen" -> [T EXCEPT !.isAddUserOpen = c.arg]
          \* the setter of the form instance that runs the handler: a form that
          \* is no longer mounted has no state to set
          [] c.op = "setIsSubmitting" ->
                IF c.arg.live THEN [T EXCEPT !.isSubmitting = c.arg.value] ELSE T
          [] c.op = "field.onChange" ->
                [T EXCEPT !.formValues[c.arg.name] = c.arg.value]
          [] c.op = "toast" -> [T EXCEPT !.toast = c.arg]
          [] c.op = "api.getUsers" ->
                [T EXCEPT !.fetches = Append(@, [by |-> c.arg]),
                          !.stale = Append(@, FALSE)]
          [] c.op = "api.deleteUser" ->
                [T EXCEPT !.deletes = Append(@, [id |-> c.arg])]
          [] c.op = "api.createUser" ->
                [T EXCEPT !.creates = Append(@, [values |-> c.arg, live |-> TRUE])]
          \* console.log, console.error, onUserAdded (the call itself)
          [] OTHER -> T

RECURSIVE Run(_, _)
Run(S, cmds) ==
    IF Len(cmds) = 0 THEN S ELSE Run(Step(S, Head(cmds)), Tail(cmds))

\* Users.tsx: the form is rendered inside the Dialog of the loaded page
FormMounted(S) == ~ S.isLoading /\ S.isAddUserOpen

\* The render that follows a handler.  While isLoading the page returns the
\* skeleton, and a closed Dialog renders no content: the AddUserForm is then
\* unmounted, its state is dropped, and a later form starts from useState(false)
\* and defaultValues.  The requests of an unmounted form stay in flight.
Render(S) ==
    IF FormMounted(S) THEN S
    ELSE [S EXCEPT !.isSubmitting = FALSE,
                   !.formValues = defaultValues,
                   !.creates = [i \in 1..Len(@) |-> [@[i] EXCEPT !.live = FALSE]]]

\* a handler (or the continuation of one) runs from the state S0, and the page
\* renders
DoFrom(S0, cmds) ==
    LET S == Render(Run([S0 EXCEPT !.effects = <<>>, !.toast = NoToast], cmds))
    IN  /\ users' = S.users
        /\ isLoading' = S.isLoading
        /\ deleteId' = S.deleteId
        /\ isAddUserOpen' = S.isAddUserOpen
        /\ isSubmitting' = S.isSubmitting
        /\ formValues' = S.formValues
        /\ toast' = S.toast
        /\ fetches' = S.fetches
        /\ deletes' = S.deletes
        /\ creates' = S.creates
        /\ effects' = S.effects
        /\ stale' = S.stale

Do(cmds) == DoFrom(Cur, cmds)

\* the sequence s without its i-th element
Without(s, i) == SubSeq(s, 1, i - 1) \o SubSeq(s, i + 1, Len(s))

\* the i-th api.getUsers call in flight in S has resolved: it leaves the calls
\* in flight, and every call issued before it has from now on been overtaken
GetUsersResolved(S, i) ==
    [S EXCEPT !.fetches = Without(@, i),
              !.stale = [k \in 1..(Len(@) - 1) |-> IF k < i THEN TRUE ELSE @[k + 1]]]

\* the i-th api.getUsers call in flight in S has rejected: it leaves the calls
\* in flight
GetUsersRejected(S, i) ==
    [S EXCEPT !.fetches = Without(@, i), !.stale = Without(@, i)]

(***************************************************************************)
(* Users.tsx: the handlers of the page.                                    *)
(***************************************************************************)
\* fetchUsers, to its await; by names the caller
fetchUsers(by) == <<Cmd("setIsLoading", TRUE), Cmd("api.getUsers", by)>>
\* fetchUsers after api.getUsers resolved with data: try, finally
fetchUsers_then(data) == <<Cmd("setUsers", data), Cmd("setIsLoading", FALSE)>>
\* fetchUsers whose catch empties the collection
fetchUsers_catch_clears ==
    <<Cmd("toast", ToastLoadError), Cmd("setUsers", <<>>),
      Cmd("setIsLoading", FALSE)>>

\* fetchUsers with setIsLoading(false) at the end of try instead of in finally
fetchUsers_catch_noFinally == <<Cmd("toast", ToastLoadError)>>

\* fetchUsers after api.getUsers rejected: catch, finally
fetchUsers_catch == <<Cmd("toast", ToastLoadError), Cmd("setIsLoading", FALSE)>>

\* !deleteId
Falsy(id) == id = Null \/ id = 0

\* handleDelete, to its await
handleDelete(id) == IF Falsy(id) THEN <<>> ELSE <<Cmd("api.deleteUser", id)>>
\* handleDelete that empties the collection on screen before it refetches
handleDelete_then_clearsList ==
    <<Cmd("toast", ToastDeleted), Cmd("setUsers", <<>>)>> \o fetchUsers("delete")
        \o <<Cmd("setDeleteId", Null)>>

\* handleDelete that does not re-run fetchUsers after a delete
handleDelete_then_noFetch ==
    <<Cmd("toast", ToastDeleted), Cmd("setDeleteId", Null)>>

\* handleDelete after api.deleteUser resolved: try, finally
handleDelete_then ==
    <<Cmd("toast", ToastDeleted)>> \o fetchUsers("delete")
        \o <<Cmd("setDeleteId", Null)>>
\* handleDelete with setDeleteId(null) at the end of try instead of in finally
handleDelete_catch_noFinally(error) ==
    <<Cmd("console.error", error),
      Cmd("toast", ToastError(Lit(DeleteErrorMessage(error))))>>

\* handleDelete after api.deleteUser rejected: catch, finally
handleDelete_catch(error) ==
    <<Cmd("console.error", error),
      Cmd("toast", ToastError(Lit(DeleteErrorMessage(error)))),
      Cmd("setDeleteId", Null)>>

\* the delete button of a row: disabled={user.rol?.toLowerCase() === 'admin'}
DeleteDisabled(user) == toLowerCase(user.rol) = STR_admin
\* the delete button of a row: onClick
DeleteClick(user) == <<Cmd("console.log", user.id), Cmd("setDeleteId", user.id)>>

\* AlertDialog: open={deleteId !== null}
AlertOpen(S) == ~ S.isLoading /\ S.deleteId # Null
\* AlertDialog: onOpenChange
AlertOnOpenChange(open) == IF ~ open THEN <<Cmd("setDeleteId", Null)>> ELSE <<>>
\* a cancel that reloads the list
AlertCancelClick_refetch == <<Cmd("setDeleteId", Null)>> \o fetchUsers("delete")

\* AlertDialogCancel: onClick
AlertCancelClick == <<Cmd("setDeleteId", Null)>>

\* AddUserForm's onUserAdded prop: () => { fetchUsers(); }
onUserAdded == <<Cmd("onUserAdded", Null)>> \o fetchUsers("create")
\* Dialog: onOpenChange={setAddUserOpen}; AddUserForm's setOpen prop
setAddUserOpen(open) == <<Cmd("setOpen", open)>>

(***************************************************************************)
(* AddUserForm.tsx: the handlers of the form.                              *)
(***************************************************************************)
\* onSubmit, to its await
onSubmit(values) ==
    <<Cmd("setIsSubmitting", [live |-> TRUE, value |-> TRUE]),
      Cmd("api.createUser", values)>>
\* onSubmit that closes the dialog without calling onUserAdded
onSubmit_then_noCallback(live) ==
    <<Cmd("toast", ToastCreated)>> \o setAddUserOpen(FALSE)
        \o <<Cmd("setIsSubmitting", [live |-> live, value |-> FALSE])>>

\* onSubmit after api.createUser resolved: try, finally; live: the form that
\* submitted is still the mounted one
onSubmit_then(live) ==
    <<Cmd("toast", ToastCreated)>> \o onUserAdded \o setAddUserOpen(FALSE)
        \o <<Cmd("setIsSubmitting", [live |-> live, value |-> FALSE])>>
\* onSubmit after api.createUser rejected: catch, finally
onSubmit_catch(error, live) ==
    <<Cmd("toast", ToastError(CreateErrorDescription(error))),
      Cmd("setIsSubmitting", [live |-> live, value |-> FALSE])>>

\* form.handleSubmit(onSubmit) with resolver: zodResolver(formSchema): onSubmit
\* runs when the schema accepts the values, else the field errors are set
handleSubmit(values) ==
    IF formSchemaErrors(values) = {}
    THEN onSubmit(values)
    ELSE <<Cmd("formErrors", formSchemaErrors(values))>>

\* the submit button: disabled={isSubmitting}
SubmitDisabled(S) == S.isSubmitting

(***************************************************************************)
(* The actions: what the user does, and how the requests end.              *)
(***************************************************************************)
\* A Dialog or AlertDialog that is open is modal: the page behind it takes no
\* clicks.
PageClickable(S) == ~ S.isLoading /\ ~ S.isAddUserOpen /\ ~ AlertOpen(S)

\* useEffect(() => { fetchUsers(); }, []) has run on the first render
Init ==
    /\ users = <<>>
    /\ isLoading = TRUE
    /\ deleteId = Null
    /\ isAddUserOpen = FALSE
    /\ isSubmitting = FALSE
    /\ formValues = defaultValues
    /\ toast = NoToast
    /\ fetches = <<[by |-> "mount"]>>
    /\ deletes = <<>>
    /\ creates = <<>>
    /\ effects = <<"setIsLoading", "api.getUsers">>
    /\ stale = <<FALSE>>

\* api.getUsers resolves with data
FetchResolved(i, data) ==
    /\ i \in 1..Len(fetches)
    /\ DoFrom(GetUsersResolved(Cur, i), fetchUsers_then(data))

\* api.getUsers rejects
FetchRejected(i) ==
    /\ i \in 1..Len(fetches)
    /\ DoFrom(GetUsersRejected(Cur, i), fetchUsers_catch)

\* the user clicks the delete button of row k
ClickDelete(k) ==
    /\ PageClickable(Cur)
    /\ k \in 1..Len(users)
    /\ ~ DeleteDisabled(users[k])
    /\ Do(DeleteClick(users[k]))

\* the user clicks "Eliminar" (AlertDialogAction, onClick={handleDelete}).
\* Whether the dialog component then reports the dialog closed
\* (onOpenChange(false)) is decided outside these files: both are modelled.
ConfirmDelete(closes) ==
    /\ AlertOpen(Cur)
    /\ Falsy(deleteId) \/ Pending < MaxPending
    /\ Do(handleDelete(deleteId) \o
             (IF closes THEN AlertOnOpenChange(FALSE) ELSE <<>>))

\* the user clicks "Cancelar".  Whether the dialog library also reports the
\* close (onOpenChange(false)) after the onClick is decided outside these
\* files: both are modelled.
CancelDelete(closes) ==
    /\ AlertOpen(Cur)
    /\ Do(AlertCancelClick \o (IF closes THEN AlertOnOpenChange(FALSE) ELSE <<>>))

\* the user dismisses the AlertDialog (Escape): onOpenChange(false) alone
DismissDelete ==
    /\ AlertOpen(Cur)
    /\ Do(AlertOnOpenChange(FALSE))

\* api.deleteUser resolves
DeleteResolved(i) ==
    /\ i \in 1..Len(deletes)
    /\ DoFrom([Cur EXCEPT !.deletes = Without(@, i)], handleDelete_then)

\* api.deleteUser rejects with error
DeleteRejected(i, error) ==
    /\ i \in 1..Len(deletes)
    /\ DoFrom([Cur EXCEPT !.deletes = Without(@, i)], handleDelete_catch(error))

\* the user clicks "Nuevo Usuario" (DialogTrigger)
OpenAddUser ==
    /\ PageClickable(Cur)
    /\ Do(setAddUserOpen(TRUE))

\* the user clicks the form's "Cancelar" or dismisses the Dialog
CloseAddUser ==
    /\ FormMounted(Cur)
    /\ Do(setAddUserOpen(FALSE))

\* the user changes one field of the form: field.onChange of that field
EditForm(name, value) ==
    /\ FormMounted(Cur)
    /\ Do(<<Cmd("field.onChange", [name |-> name, value |-> value])>>)

\* the user submits the form ("Crear Usuario", or Enter in a field)
SubmitForm ==
    /\ FormMounted(Cur)
    /\ ~ SubmitDisabled(Cur)
    /\ formSchemaErrors(formValues) # {} \/ Pending < MaxPending
    /\ Do(handleSubmit(formValues))

\* api.createUser resolves
CreateResolved(i) ==
    /\ i \in 1..Len(creates)
    /\ DoFrom([Cur EXCEPT !.creates = Without(@, i)], onSubmit_then(creates[i].live))

\* api.createUser rejects with error
CreateRejected(i, error) ==
    /\ i \in 1..Len(creates)
    /\ DoFrom([Cur EXCEPT !.creates = Without(@, i)],
              onSubmit_catch(error, creates[i].live))

Next ==
    \/ \E i \in 1..MaxPending : \E data \in Collections : FetchResolved(i, data)
    \/ \E i \in 1..MaxPending : FetchRejected(i)
    \/ \E k \in 1..Cardinality(SampleUsers) : ClickDelete(k)
    \/ \E closes \in BOOLEAN : ConfirmDelete(closes)
    \/ \E closes \in BOOLEAN : CancelDelete(closes)
    \/ DismissDelete
    \/ \E i \in 1..MaxPending : DeleteResolved(i)
    \/ \E i \in 1..MaxPending : \E error \in DeleteErrors : DeleteRejected(i, error)
    \/ OpenAddUser
    \/ CloseAddUser
    \/ \E name \in FieldNames : \E value \in FieldInputs[name] : EditForm(name, value)
    \/ SubmitForm
    \/ \E i \in 1..MaxPending : CreateResolved(i)
    \/ \E i \in 1..MaxPending : \E error \in CreateErrors : CreateRejected(i, error)

Spec == Init /\ [][Next]_vars

(***************************************************************************)
(* The form alone: the dialog is open on the loaded page and the form      *)
(* holds any combination of the field inputs when it is submitted (rol     *)
(* includes values that are not in the enum: the schema is what rejects    *)
(* them).                                                                  *)
(***************************************************************************)
InitForm ==
    /\ users = <<>>
    /\ isLoading = FALSE
    /\ deleteId = Null
    /\ isAddUserOpen = TRUE
    /\ isSubmitting = FALSE
    /\ formValues \in SchemaInputs
    /\ toast = NoToast
    /\ fetches = <<>>
    /\ deletes = <<>>
    /\ creates = <<>>
    /\ effects = <<"field.onChange">>
    /\ stale = <<>>

NextForm ==
    \/ SubmitForm
    \/ \E i \in 1..MaxPending : CreateResolved(i)
    \/ \E i \in 1..MaxPending : \E error \in CreateErrors : CreateRejected(i, error)

SpecForm == InitForm /\ [][NextForm]_vars

(***************************************************************************)
(* Vocabulary of the properties.                                           *)
(***************************************************************************)
\* a row whose role is administrator, compared case-insensitively with 'admin'
IsAdministrator(user) == toLowerCase(user.rol) = STR_admin
\* the rows of the collection on screen whose id is id
RowsWithId(id) == {k \in 1..Len(users) : users[k].id = id}
\* this step issues a request of the kind
IssuesFetch == Len(fetches') > Len(fetches)
IssuesDelete == Len(deletes') > Len(deletes)
IssuesCreate == Len(creates') > Len(creates)
Last(s) == s[Len(s)]

(***************************************************************************)
(* C1.  An administrator cannot be deleted through this interface: in      *)
(* every state the delete button of every row whose role is administrator  *)
(* (case-insensitively 'admin') is disabled; no step sets the pending      *)
(* delete id to the id of such a row; and no step issues a deleteUser      *)
(* request for the id of a user that the collection shows as an            *)
(* administrator.                                                          *)
(***************************************************************************)
C1_AdminButtonDisabled ==
    \A k \in 1..Len(users) : IsAdministrator(users[k]) => DeleteDisabled(users[k])
C1_PendingNotFromAdmin ==
    (deleteId' # deleteId /\ deleteId' # Null)
        => \A k \in RowsWithId(deleteId') : ~ IsAdministrator(users[k])
C1_NoDeleteOfAdmin ==
    IssuesDelete
        => \A k \in RowsWithId(Last(deletes').id) : ~ IsAdministrator(users[k])
C1_AdminCannotBeDeleted ==
    /\ [] C1_AdminButtonDisabled
    /\ [][C1_PendingNotFromAdmin /\ C1_NoDeleteOfAdmin]_vars

(***************************************************************************)
(* C2.  While the form holds an input whose name is shorter than 3, or     *)
(* whose email does not match the email syntax, or whose password is       *)
(* shorter than 6, or whose role is none of admin, comerciante, creador de *)
(* ruta, no step runs onSubmit (the submitting flag is not raised) and no  *)
(* step issues a createUser request; every createUser request in flight    *)
(* carries an input that meets all four conditions.                        *)
(***************************************************************************)
C2_Invalid(values) ==
    \/ Len(values.nombre) < 3
    \/ ~ IsEmail(values.email)
    \/ Len(values.password) < 6
    \/ values.rol \notin {STR_admin, STR_comerciante, STR_creador}
C2_NoRequestForInvalid ==
    (FormMounted(Cur) /\ C2_Invalid(formValues))
        => /\ ~ IssuesCreate
           /\ ~ (isSubmitting' /\ ~ isSubmitting)
           /\ \A n \in 1..Len(effects') : effects'[n] # "api.createUser"
C2_InvalidInputBlocked ==
    /\ [] (\A i \in 1..Len(creates) : ~ C2_Invalid(creates[i].values))
    /\ [][C2_NoRequestForInvalid]_vars
\* the scenario of the specification: "Jo" was submitted, the field errors were
\* set and nothing was sent
C2_Witness ==
    /\ formValues = InputJo
    /\ effects = <<"formErrors">>
    /\ creates = <<>>
    /\ ~ isSubmitting

(***************************************************************************)
(* C3.  When createUser resolves, the step shows the success notification, *)
(* then calls the user-added callback, which issues exactly one getUsers   *)
(* request, then closes the dialog: the dialog-open flag is false after    *)
(* the step and exactly one more fetch is in flight.                       *)
(***************************************************************************)
Positions(log, op) == {n \in 1..Len(log) : log[n] = op}
Before(log, a, b) ==
    \A m \in Positions(log, a) : \A n \in Positions(log, b) : m < n
C3_OnResolved ==
    (\E i \in 1..Len(creates) : CreateResolved(i))
        => /\ isAddUserOpen' = FALSE
           /\ toast' = ToastCreated
           /\ Len(fetches') = Len(fetches) + 1
           /\ Last(fetches').by = "create"
           /\ Cardinality(Positions(effects', "toast")) = 1
           /\ Cardinality(Positions(effects', "onUserAdded")) = 1
           /\ Cardinality(Positions(effects', "api.getUsers")) = 1
           /\ Cardinality(Positions(effects', "setOpen")) = 1
           /\ Before(effects', "toast", "onUserAdded")
           /\ Before(effects', "onUserAdded", "api.getUsers")
           /\ Before(effects', "api.getUsers", "setOpen")
C3_CreateSuccessClosesAndRefetches == [][C3_OnResolved]_vars
\* a create has just resolved: the dialog is closed and its fetch is in flight
C3_Witness ==
    /\ toast = ToastCreated
    /\ ~ isAddUserOpen
    /\ creates = <<>>
    /\ fetches = <<[by |-> "create"]>>
    /\ isLoading

(***************************************************************************)
(* C4.  At most one deleteUser request is in flight at a time.             *)
(***************************************************************************)
C4_OneDeleteInFlight == Len(deletes) <= 1

(***************************************************************************)
(* C5.  No createUser request is fired until the previous one has          *)
(* resolved: at most one createUser request is in flight, and while one is *)
(* in flight the submit button of the form on screen is disabled.          *)
(***************************************************************************)
\* the requests in flight whose form is still the mounted one
LiveCreates == {i \in 1..Len(creates) : creates[i].live}
C5_NoCreateUntilPreviousSettles ==
    /\ Len(creates) <= 1
    /\ (creates # <<>> /\ FormMounted(Cur)) => SubmitDisabled(Cur)

(***************************************************************************)
(* C6.  When deleteUser rejects, the error notification is chosen by the   *)
(* status the error carries: 403 gives the permission-denied message, 404  *)
(* the not-found message, 500 the server-refused message, and any other    *)
(* rejection, also one that is not an Error, the generic message.          *)
(***************************************************************************)
C6_Carries(error, status) == error.isError /\ includes(error.message, status)
C6_OnRejected ==
    \A i \in 1..Len(deletes) : \A error \in DeleteErrors :
        DeleteRejected(i, error)
            => /\ toast'.title = "Error"
               /\ toast'.variant = "destructive"
               /\ C6_Carries(error, STR_403)
                     => toast'.description = Lit(MsgDelete403)
               /\ C6_Carries(error, STR_404)
                     => toast'.description = Lit(MsgDelete404)
               /\ C6_Carries(error, STR_500)
                     => toast'.description = Lit(MsgDelete500)
               /\ (\A st \in {STR_403, STR_404, STR_500} : ~ C6_Carries(error, st))
                     => toast'.description = Lit(MsgDeleteGeneric)
C6_DeleteErrorByStatus == [][C6_OnRejected]_vars
\* a delete was rejected with 403 and the permission-denied message is shown
C6_Witness ==
    /\ toast = ToastError(Lit(MsgDelete403))
    /\ effects = <<"console.error", "toast", "setDeleteId">>

(***************************************************************************)
(* C7.  When deleteUser rejects, with any error, the pending delete id is  *)
(* cleared, no getUsers request is issued, and the collection and the      *)
(* loading flag are as before.                                             *)
(***************************************************************************)
C7_OnRejected ==
    (\E i \in 1..Len(deletes) : \E error \in DeleteErrors : DeleteRejected(i, error))
        => /\ deleteId' = Null
           /\ fetches' = fetches
           /\ users' = users
           /\ isLoading' = isLoading
           /\ \A n \in 1..Len(effects') : effects'[n] # "api.getUsers"
C7_DeleteFailureClearsPending == [][C7_OnRejected]_vars
\* a delete was rejected with 500 ("server refused"); nothing is pending and
\* nothing is being fetched
C7_Witness ==
    /\ toast = ToastError(Lit(MsgDelete500))
    /\ deleteId = Null
    /\ fetches = <<>>
    /\ ~ isLoading
    /\ Len(users) > 0

(***************************************************************************)
(* C8.  When createUser rejects, an error notification is shown with the   *)
(* message of the error, or with the fallback when the rejection is not an *)
(* Error; the user-added callback is not called and no getUsers request is *)
(* issued; the dialog is open, the form that submitted is the one on       *)
(* screen and holds the values it held, and its submit button is enabled.  *)
(***************************************************************************)
C8_OnRejected ==
    \A i \in 1..Len(creates) : \A error \in CreateErrors :
        CreateRejected(i, error)
            => /\ toast' = ToastError(IF error.isError THEN Msg(error.message)
                                      ELSE Lit(MsgCreateGeneric))
               /\ Positions(effects', "onUserAdded") = {}
               /\ fetches' = fetches
               /\ isAddUserOpen'
               /\ creates[i].live
               /\ formValues' = formValues
               /\ ~ isSubmitting'
C8_CreateFailureKeepsForm == [][C8_OnRejected]_vars

(***************************************************************************)
(* C9.  When deleteUser resolves, the pending delete id is cleared, the    *)
(* success notification is shown, and exactly one getUsers request is      *)
(* issued.                                                                 *)
(***************************************************************************)
C9_OnResolved ==
    (\E i \in 1..Len(deletes) : DeleteResolved(i))
        => /\ deleteId' = Null
           /\ toast' = ToastDeleted
           /\ Len(fetches') = Len(fetches) + 1
           /\ SubSeq(fetches', 1, Len(fetches)) = fetches
           /\ Last(fetches').by = "delete"
           /\ Cardinality(Positions(effects', "api.getUsers")) = 1
           /\ isLoading'
C9_DeleteSuccessRefetches == [][C9_OnResolved]_vars
\* a delete has just resolved and its fetch is in flight
C9_Witness ==
    /\ toast = ToastDeleted
    /\ deleteId = Null
    /\ deletes = <<>>
    /\ fetches = <<[by |-> "delete"]>>
    /\ isLoading

(***************************************************************************)
(* C10.  Every failure leaves the page usable: a rejected getUsers clears  *)
(* the loading flag, a rejected deleteUser clears the pending delete id, a *)
(* rejected createUser enables the submit button of the form that sent it; *)
(* and in no state is the loading flag true without a getUsers request in  *)
(* flight, or the submit button disabled without a createUser request of   *)
(* the mounted form in flight.                                             *)
(***************************************************************************)
C10_Settled ==
    /\ fetches = <<>> => ~ isLoading
    /\ LiveCreates = {} => ~ SubmitDisabled(Cur)
C10_OnFailure ==
    /\ (\E i \in 1..Len(fetches) : FetchRejected(i)) => ~ isLoading'
    /\ (\E i \in 1..Len(deletes) : \E error \in DeleteErrors :
            DeleteRejected(i, error)) => deleteId' = Null
    /\ \A i \in 1..Len(creates) : \A error \in CreateErrors :
            (CreateRejected(i, error) /\ creates[i].live) => ~ isSubmitting'
C10_FailureLeavesPageUsable == [] C10_Settled /\ [][C10_OnFailure]_vars
\* the first getUsers was rejected: nothing is in flight and the page is shown
C10_Witness ==
    /\ toast = ToastLoadError
    /\ Pending = 0
    /\ ~ isLoading
    /\ ~ isSubmitting
    /\ deleteId = Null

(***************************************************************************)
(* C11.  When getUsers rejects, the collection is exactly as it was before *)
(* the step, the load-error notification is shown, and the loading flag is *)
(* false after the step.                                                   *)
(***************************************************************************)
C11_OnRejected ==
    (\E i \in 1..Len(fetches) : FetchRejected(i))
        => /\ users' = users
           /\ toast' = ToastLoadError
           /\ ~ isLoading'
C11_FetchFailureKeepsCollection == [][C11_OnRejected]_vars
\* a refetch was rejected while the page held a collection: the rows are still
\* there and the page is shown
C11_Witness ==
    /\ toast = ToastLoadError
    /\ effects = <<"toast", "setIsLoading">>
    /\ Len(users) = 2
    /\ ~ isLoading

(***************************************************************************)
(* C12.  Confirming in the pending-confirmation state issues a deleteUser  *)
(* request for exactly the recorded id, whatever integer the id is, also   *)
(* 0; and the outcome of the request returns the flow to idle.             *)
(***************************************************************************)
C12_OnConfirm ==
    /\ (\E closes \in BOOLEAN : ConfirmDelete(closes))
          => /\ Len(deletes') = Len(deletes) + 1
             /\ SubSeq(deletes', 1, Len(deletes)) = deletes
             /\ Last(deletes').id = deleteId
    /\ ((\E i \in 1..Len(deletes) : DeleteResolved(i))
            \/ (\E i \in 1..Len(deletes) : \E error \in DeleteErrors :
                   DeleteRejected(i, error)))
          => deleteId' = Null
C12_ConfirmDeletesRecordedId == [][C12_OnConfirm]_vars

(***************************************************************************)
(* C13.  Cancelling the confirmation only clears the pending delete id: no *)
(* request is issued, and the collection, the loading flag, the            *)
(* dialog-open flag and the requests in flight are as before.              *)
(***************************************************************************)
C13_OnCancel ==
    ((\E closes \in BOOLEAN : CancelDelete(closes)) \/ DismissDelete)
        => /\ deleteId' = Null
           /\ deletes' = deletes
           /\ fetches' = fetches
           /\ creates' = creates
           /\ users' = users
           /\ isLoading' = isLoading
           /\ isAddUserOpen' = isAddUserOpen
           /\ effects' # <<>>
           /\ \A k \in 1..Len(effects') : effects'[k] = "setDeleteId"
C13_CancelOnlyClearsPending == [][C13_OnCancel]_vars
\* the only row that can be clicked is user 2; its confirmation was cancelled
\* with a click that also reported the close: nothing is pending, nothing is in
\* flight, the row is still there
C13_Witness ==
    /\ effects = <<"setDeleteId", "setDeleteId">>
    /\ deleteId = Null
    /\ users = <<[id |-> 1, rol |-> STR_Admin], [id |-> 2, rol |-> STR_comerciante]>>
    /\ Pending = 0
    /\ ~ isLoading

(***************************************************************************)
(* C14.  The collection is never patched locally: a step changes it only   *)
(* when a getUsers request resolves, and then to the result of that        *)
(* request; and every createUser or deleteUser request that resolves       *)
(* issues a getUsers request.                                              *)
(***************************************************************************)
C14_OnStep ==
    /\ users' # users
          => \E i \in 1..Len(fetches) : \E data \in Collections :
                FetchResolved(i, data) /\ users' = data
    /\ (\E i \in 1..Len(fetches) : \E data \in Collections : FetchResolved(i, data))
          => users' \in Collections /\ Len(fetches') = Len(fetches) - 1
    /\ ((\E i \in 1..Len(creates) : CreateResolved(i))
            \/ (\E i \in 1..Len(deletes) : DeleteResolved(i)))
          => IssuesFetch
C14_OnlyFetchChangesCollection == [][C14_OnStep]_vars
\* a getUsers request has resolved and its result is the collection on screen
C14_Witness ==
    /\ effects = <<"setUsers", "setIsLoading">>
    /\ users = <<[id |-> 0, rol |-> STR_comerciante]>>
    /\ Pending = 0
    /\ toast = NoToast

(***************************************************************************)
(* C15.  The loading flag covers every fetch in flight: in every state in  *)
(* which a getUsers request is in flight the loading flag is true, also    *)
(* when the fetches of a resolved create and a resolved delete overlap.    *)
(***************************************************************************)
C15_LoadingCoversFetches == fetches # <<>> => isLoading

(***************************************************************************)
(* C16.  Fetch results are not applied out of order: a getUsers request    *)
(* that resolves after a request issued later than it has resolved leaves  *)
(* the collection unchanged, so the collection stays the result of the     *)
(* most recently issued request that resolved.                             *)
(***************************************************************************)
C16_OnOvertaken ==
    \A i \in 1..Len(fetches) :
        (stale[i] /\ \E data \in Collections : FetchResolved(i, data))
            => users' = users
C16_FetchResultsInOrder == [][C16_OnOvertaken]_vars

(***************************************************************************)
(* C17.  The outcome of a deleteUser request clears the pending delete id  *)
(* only for the user it was issued for: when the request for one id        *)
(* resolves or rejects while the pending id is a different id, the pending *)
(* id is unchanged by the step.                                            *)
(***************************************************************************)
C17_OnOutcome ==
    \A i \in 1..Len(deletes) :
        (/\ deleteId # Null
         /\ deleteId # deletes[i].id
         /\ \/ DeleteResolved(i)
            \/ \E error \in DeleteErrors : DeleteRejected(i, error))
            => deleteId' = deleteId
C17_OutcomeKeepsOtherPending == [][C17_OnOutcome]_vars

(***************************************************************************)
(* C18.  In every state the pending delete id is none, or the id of a row  *)
(* of the collection on screen whose role is not administrator.            *)
(***************************************************************************)
C18_PendingIsDeletableRow ==
    deleteId # Null
        => \E k \in RowsWithId(deleteId) : ~ IsAdministrator(users[k])

====
